---- MODULE Spec2Model ----
(***************************************************************************)
(* Proxy pool lifecycle and request forwarding of the rotating relay.      *)
(* Three entry points share the design and are modelled side by side; the  *)
(* variable "variant" says which script is running:                        *)
(*   "app"    src/app.py                (validated pool, timer refresh,    *)
(*                                       3-attempt retry loop)             *)
(*   "quick"  src/app_quick.py          (unvalidated pool, one attempt)    *)
(*   "https"  src/working_https_proxy.py (proxy attempt, then direct)      *)
(***************************************************************************)
EXTENDS Naturals, Integers, Sequences, FiniteSets, TLC

(* ----------------------------- bounds ---------------------------------- *)
\* number of distinct upstream endpoints the listing service can name
NumEndpoints == 2
\* length of the longest of the short listings
MaxShort == 2
\* length of the one long listing (beyond the validation cap of app.py)
MaxListing == 101

(* ------------------------ program constants ---------------------------- *)
\* app.py: max_retries = 3
max_retries == 3
\* app.py: get_working_proxies(new_proxies, max_to_test=100)
MAX_TO_TEST == 100
\* app.py: PROXY_POOL = new_proxies[:50]
FALLBACK_KEEP == 50
\* working_https_proxy.py: content.split('\n')[:10]
HTTPS_TAKE == 10

(* ------------------------------ values --------------------------------- *)
EndpointName == <<"http://P1", "http://P2", "http://P3", "http://P4">>
Endpoints == {EndpointName[i] : i \in 1..NumEndpoints}

Min(a, b) == IF a <= b THEN a ELSE b

\* xs[:n] of Python
Take(xs, n) == SubSeq(xs, 1, Min(n, Len(xs)))

\* a listing of n lines naming the endpoints in rotation
Cyclic(n) == [i \in 1..n |-> EndpointName[((i - 1) % NumEndpoints) + 1]]

\* every one-line listing, and the rotations of 0..MaxShort lines
ShortListings == {<<e>> : e \in Endpoints} \cup {Cyclic(k) : k \in 0..MaxShort}
LongSizes == {MaxListing}
\* what the listing service may answer (the lines that hold a ':', each
\* prefixed with http://)
Listings == ShortListings \cup {Cyclic(n) : n \in LongSizes}

\* How the request to the listing service ends: exc "none" with the lines
\* read, or the exception raised by urlopen / read / decode (HTTPError for a
\* status >= 400) with the lines that had arrived before it.
FetchFailures == {"URLError", "HTTPError", "TimeoutError"}
FetchOutcomes ==
    {[exc |-> "none", lines |-> l] : l \in Listings}
    \cup {[exc |-> e, lines |-> l] : e \in FetchFailures,
                                    l \in {<<>>, <<EndpointName[1]>>}}

\* mutant: what was read before the failure is returned
fetched_partial(r) == r.lines

\* app.py / app_quick.py fetch_proxies_from_api: the try block returns the
\* parsed list, "except Exception" returns []
fetched(r) == IF r.exc = "none" THEN r.lines ELSE <<>>

\* Outcome of the probe request of validate_proxy at one position of the
\* candidate list: a 200, another status the opener hands back, or an
\* exception (refused, timeout, TLS failure, HTTPError).
ProbePatterns == {"none", "all", "odd", "beyond"}
Probe(pat, i) ==
    CASE pat = "all"    -> [exc |-> FALSE, status |-> 200]
      [] pat = "odd"    -> IF i % 2 = 1 THEN [exc |-> FALSE, status |-> 200]
                                         ELSE [exc |-> TRUE, status |-> 0]
      [] pat = "beyond" -> IF i > MAX_TO_TEST THEN [exc |-> FALSE, status |-> 200]
                                              ELSE [exc |-> TRUE, status |-> 0]
      [] OTHER          -> IF i % 2 = 1 THEN [exc |-> TRUE, status |-> 0]
                                         ELSE [exc |-> FALSE, status |-> 204]

\* mutant: every answer the opener hands back counts as working
validate_proxy_anystatus(res) == ~res.exc

\* app.py validate_proxy: True only for a 200 answered without exception
validate_proxy(res) == IF res.exc THEN FALSE ELSE res.status = 200

\* mutant: the loop breaks one candidate late (tested > max_to_test)
get_working_proxies_offbyone(proxy_list, max_to_test, pat) ==
    LET tested_positions == [i \in 1..Min(max_to_test + 1, Len(proxy_list)) |-> i]
        passed == SelectSeq(tested_positions,
                            LAMBDA i : validate_proxy(Probe(pat, i)))
    IN [tested |-> tested_positions,
        working |-> [k \in 1..Len(passed) |-> proxy_list[passed[k]]]]

\* app.py get_working_proxies: the for loop walks proxy_list in order and
\* breaks once max_to_test candidates were tested, so it tests positions
\* 1..min(len, max_to_test), each once, and appends those that pass.
\* Returns the positions tested and the candidates that passed.
get_working_proxies(proxy_list, max_to_test, pat) ==
    LET tested_positions == [i \in 1..Min(max_to_test, Len(proxy_list)) |-> i]
        passed == SelectSeq(tested_positions,
                            LAMBDA i : validate_proxy(Probe(pat, i)))
    IN [tested |-> tested_positions,
        working |-> [k \in 1..Len(passed) |-> proxy_list[passed[k]]]]

\* mutant: the guard "if new_proxies" is missing
UpdatedPool_noguard(pool, new_proxies, working_proxies) ==
    IF working_proxies # <<>>
    THEN working_proxies
    ELSE Take(new_proxies, FALLBACK_KEEP)

\* mutant: no untested fallback, the pool is kept when nothing validated
UpdatedPool_keepstale(pool, new_proxies, working_proxies) ==
    IF new_proxies # <<>> /\ working_proxies # <<>>
    THEN working_proxies
    ELSE pool

\* mutant: the list is extended in place instead of being rebound
UpdatedPool_inplace(pool, new_proxies, working_proxies) ==
    IF new_proxies # <<>>
    THEN IF working_proxies # <<>>
         THEN pool \o working_proxies
         ELSE Take(new_proxies, FALLBACK_KEEP)
    ELSE pool

\* mutant: the validated list replaces the pool also when it is empty
UpdatedPool_workingonly(pool, new_proxies, working_proxies) ==
    IF new_proxies # <<>> THEN working_proxies ELSE pool

\* app.py update_proxy_pool, the value PROXY_POOL has when it returns
UpdatedPool(pool, new_proxies, working_proxies) ==
    IF new_proxies # <<>>
    THEN IF working_proxies # <<>>
         THEN working_proxies
         ELSE Take(new_proxies, FALLBACK_KEEP)
    ELSE pool

\* app_quick.py update_proxy_pool / working_https_proxy.py initialize_proxies
UnvalidatedPool(pool, new_proxies) ==
    IF new_proxies # <<>> THEN new_proxies ELSE pool

\* mutant: the slice [:10] is missing
fetch_proxies_unsliced(r) == IF r.exc = "none" THEN r.lines ELSE <<>>

\* working_https_proxy.py fetch_proxies keeps the first 10 lines only;
\* "except Exception" returns []
fetch_proxies(r) == IF r.exc = "none" THEN Take(r.lines, HTTPS_TAKE) ELSE <<>>

(* ------------------- outcomes of one outbound attempt ------------------ *)
\* A 2xx answer is handed back by opener.open; every status >= 400 is
\* raised by urllib as HTTPError instead (redirects are followed).
OkResponses == {[status |-> 200, body |-> "1.2.3.4"],
                [status |-> 204, body |-> ""]}
ErrorCodes == {404}
RelayedOnFailure == {200}

\* kind "ok":           opened and relayed completely
\* kind "open_failed":  opener.open raised exc (status = e.code of HTTPError)
\* kind "relay_failed": opened, headers flushed to the caller with status,
\*                      then response.read() / wfile.write raised exc
Outcomes ==
    {[kind |-> "ok", status |-> r.status, body |-> r.body, exc |-> "none"]
        : r \in OkResponses}
    \cup {[kind |-> "open_failed", status |-> c, body |-> "", exc |-> "HTTPError"]
        : c \in ErrorCodes}
    \cup {[kind |-> "open_failed", status |-> 0, body |-> "", exc |-> k]
        : k \in {"URLError", "TimeoutError", "Exception"}}
    \cup {[kind |-> "relay_failed", status |-> s, body |-> "", exc |-> k]
        : s \in RelayedOnFailure, k \in {"Exception"}}

\* the record of one attempt: its route and what came back from upstream
Record(via, o) == [via |-> via, result |-> o.exc, status |-> o.status,
                   body |-> o.body]

\* mutant: the body is not written
Relayed_nobody(o) == [status |-> o.status, body |-> "", complete |-> o.kind = "ok"]

\* what send_response .. end_headers .. wfile.write put on the caller's socket
Relayed(o) == [status |-> o.status, body |-> o.body, complete |-> o.kind = "ok"]
\* what send_error puts on the caller's socket
ErrorPage(code) == [status |-> code, body |-> "error", complete |-> TRUE]

\* mutant: every failure of the last attempt is answered 504
terminal_status_all504(o) == 504

\* mutant: a URLError is answered 502
terminal_status_gateway(o) ==
    CASE o.exc = "HTTPError"    -> o.status
      [] o.exc = "URLError"     -> 502
      [] o.exc = "TimeoutError" -> 504
      [] OTHER                  -> 500

\* app.py forward_request, the except clauses: status of send_error
terminal_status(o) ==
    CASE o.exc = "HTTPError"    -> o.status
      [] o.exc = "URLError"     -> 504
      [] o.exc = "TimeoutError" -> 504
      [] OTHER                  -> 500

Range(xs) == {xs[i] : i \in 1..Len(xs)}

\* mutant: the choice is made from a stale copy that holds every endpoint
random_choice_any(pool) == Endpoints

\* app.py get_random_proxy, line 148: random.choice(PROXY_POOL)
random_choice(pool) == Range(pool)

(* ------------------------ request targets as text ---------------------- *)
\* A request path is the text after "GET ": a "/" followed by the target,
\* written as the sequence of its parts (scheme, host, port, rest).
Schemes == {"http://", "https://"}
Hosts == {"example.com", "github.com", "GitHub.com"}
Ports == {":8080"}
Rests == {"/foo", "/github"}
Opt(S) == {<<>>} \cup {<<x>> : x \in S}
Targets ==
    {s \o <<h>> \o p \o r :
        s \in Opt(Schemes), h \in Hosts, p \in Opt(Ports), r \in Opt(Rests)}
RequestPaths == {<<"/">> \o t : t \in Targets}

\* str.lower() on one part
Lower(part) == IF part = "GitHub.com" THEN "github.com" ELSE part
\* working_https_proxy.py line 104: the names searched for
Sites == {"google", "github", "facebook", "twitter"}
\* the names of Sites that occur as substrings of a (lowercase) part
Mentions(part) == IF part \in {"github.com", "/github"} THEN {"github"} ELSE {}
\* "site in path.lower()" for some site of the list: the whole text is searched
site_in(whole) ==
    \E i \in 1..Len(whole) : Mentions(Lower(whole[i])) \cap Sites # {}

\* working_https_proxy.py normalize_url
normalize_url(path) ==
    LET stripped == IF path[1] = "/" THEN Tail(path) ELSE path
    IN IF stripped[1] \in Schemes
       THEN stripped
       ELSE IF site_in(stripped)
            THEN <<"https://">> \o stripped
            ELSE <<"http://">> \o stripped

\* urllib.parse.urlparse(url).scheme: the text before the first ":" when it
\* is made of scheme characters (letters, digits, "+", "-", "."), as the
\* name of a host followed by ":port" is
urlparse_scheme(url) ==
    IF url[1] \in Schemes THEN url[1]
    ELSE IF Len(url) >= 2 /\ url[1] \in Hosts /\ url[2] \in Ports THEN url[1]
    ELSE ""

\* app.py / app_quick.py validate_url (no target of Targets makes urlparse
\* raise)
validate_url(url) ==
    IF urlparse_scheme(url) = "" THEN <<"http://">> \o url ELSE url

(* ------------------------ proxy listings as text ----------------------- *)
MaxLines == 2
\* A line of the listing is the sequence of its parts; " " is white space.
HostPart == "1.2.3.4"
PortPart == "8080"
Lines ==
    {<<>>, <<" ">>, <<"n/a">>,
     <<HostPart, ":", PortPart>>, <<" ", HostPart, ":", PortPart, " ">>,
     <<HostPart, ":">>, <<":", PortPart>>, <<":">>}
Contents == UNION {[1..n -> Lines] : n \in 0..MaxLines}

\* str.strip() on one line
RECURSIVE lstrip(_)
lstrip(line) ==
    IF line # <<>> /\ line[1] = " " THEN lstrip(Tail(line)) ELSE line
RECURSIVE rstrip(_)
rstrip(line) ==
    IF line # <<>> /\ line[Len(line)] = " "
    THEN rstrip(SubSeq(line, 1, Len(line) - 1))
    ELSE line
strip(line) == rstrip(lstrip(line))

\* app.py line 55: "if line and ':' in line"
accepts(line) == line # <<>> /\ ":" \in Range(line)
\* app.py line 57: f"http://{line}"
endpoint_of(line) == <<"http://">> \o line

(* ------------------------ upstream response headers -------------------- *)
MaxHeaders == 2
\* header names as upstream servers write them
HeaderKeys == {"Content-Type", "Set-Cookie", "Connection", "Transfer-Encoding",
               "content-encoding", "CONTENT-ENCODING"}
HeaderValues == {"a", "b"}
Headers == [key : HeaderKeys, value : HeaderValues]
HeaderLists == UNION {[1..n -> Headers] : n \in 0..MaxHeaders}
\* what opener.open hands back: status, getheaders() and read()
Responses ==
    {[status |-> r.status, headers |-> hs, body |-> r.body] :
        r \in OkResponses, hs \in HeaderLists}

\* str.lower() on a header name
LowerKey(key) ==
    CASE key = "Content-Type" -> "content-type"
      [] key = "Set-Cookie" -> "set-cookie"
      [] key = "Connection" -> "connection"
      [] key = "Transfer-Encoding" -> "transfer-encoding"
      [] key = "CONTENT-ENCODING" -> "content-encoding"
      [] OTHER -> key
\* working_https_proxy.py line 156
skip_headers == {"connection", "transfer-encoding", "content-encoding"}
\* mutant: the name is compared as upstream wrote it
skips_casesensitive(key) == key \in skip_headers

\* working_https_proxy.py line 158: "key.lower() not in skip_headers" fails
skips(key) == LowerKey(key) \in skip_headers

(* --------------------------- status monitor ---------------------------- *)
\* simple_status.py line 171: the history is cut to its last 20 entries
HISTORY_KEEP == 20
\* simple_status.py lines 28-32: three test endpoints
NUM_TESTS == 3
\* checks that ran, one after the other, before the behaviour begins
MaxPrior == 20
\* checks started in the behaviour
MaxRuns == 2
\* the threads that run run_status_check: the background_monitor thread and
\* a thread started by do_GET for /api/check
Checkers == {"background", "api"}
LastN(xs, n) == SubSeq(xs, Len(xs) - Min(n, Len(xs)) + 1, Len(xs))
\* an entry of status_history; the timestamp is the number of the append
Entry(timestamp, running) == [timestamp |-> timestamp, proxy_running |-> running]
\* the history after n checks that ran alone and found the port closed
HistoryAfter(n) ==
    LastN([i \in 1..n |-> Entry(i, FALSE)], HISTORY_KEEP)
\* simple_status.py lines 34-43, the fields the checks write
NoRequests == [proxy_running |-> FALSE, total_requests |-> 0,
               successful_requests |-> 0, failed_requests |-> 0]

(* ------------------------------- state --------------------------------- *)
VARIABLES
    variant,          \* which script runs
    phase,            \* run_server: "boot", "startup", "serving"
    rstate,           \* refresh thread: "unstarted", "sleeping", "refreshing"
    upc,              \* inside update_proxy_pool: "idle", "fetching",
                      \* "fetched", "validated", "returned"
    PROXY_POOL,       \* the global pool
    fetch_exc,        \* how the fetch of this refresh ended ("unset" outside
                      \* update_proxy_pool)
    new_proxies,      \* local of update_proxy_pool
    working_proxies,  \* local of update_proxy_pool
    tested,           \* positions of new_proxies probed in this refresh
    probes,           \* what the probes of this refresh were answered
    hpc,              \* position of the request handler
    attempt,          \* loop variable of forward_request
    proxy,            \* local of forward_request / make_request ("unset"
                      \* outside the function)
    log,              \* log file: attempt records of the current request
    wire,             \* socket: responses written to the current caller
    accepted_in_refresh, \* history: the current request was accepted while
                      \* the timer refresh still in progress was between
                      \* its fetch and its pool replacement
    path,             \* do_GET: self.path as text
    url,              \* do_GET: the normalized target
    url_again,        \* the normalized target, normalized once more
    content,          \* fetch_proxies_from_api: the lines of the listing
    line_no,          \* fetch_proxies_from_api: lines the loop has handled
    proxies,          \* fetch_proxies_from_api: the endpoints parsed so far
    response,         \* the upstream response being relayed
    relay_pc,         \* relaying: "idle", "status", "headers", "done"
    header_no,        \* relaying: upstream headers the loop has handled
    emitted,          \* relaying: status, headers and body sent to the caller
    current_status,   \* monitor: self.current_status
    status_history,   \* monitor: self.status_history
    clock,            \* monitor: timestamps taken for history entries
    runs,             \* monitor: checks started in this behaviour
    cpc,              \* per checker: position inside run_status_check
    c_running,        \* per checker: local proxy_running
    c_i,              \* per checker: index of the endpoint being tested
    c_result,         \* per checker: the test of that endpoint succeeded
    c_reg,            \* per checker: the value read for "+= 1"
    c_slice           \* per checker: the value of self.status_history[-20:]

vars == <<variant, phase, rstate, upc, PROXY_POOL, fetch_exc, new_proxies,
          working_proxies, tested, probes, hpc, attempt, proxy, log, wire,
          accepted_in_refresh, path, url, url_again, content, line_no, proxies,
          response, relay_pc, header_no, emitted,
          current_status, status_history, clock, runs,
          cpc, c_running, c_i, c_result, c_reg, c_slice>>

\* The texts the functions of the text-level specifications work on; the
\* program's steps in Spec treat targets and listings as already parsed.
text == <<path, url, url_again, content, line_no, proxies,
          response, relay_pc, header_no, emitted,
          current_status, status_history, clock, runs,
          cpc, c_running, c_i, c_result, c_reg, c_slice>>

refresher == <<phase, rstate, upc, PROXY_POOL, fetch_exc, new_proxies,
               working_proxies, tested, probes>>
locals == <<fetch_exc, new_proxies, working_proxies, tested, probes>>
handler == <<hpc, attempt, proxy, log, wire>>

Unstarted ==
    /\ variant \in {"app", "quick", "https"}
    /\ phase = "boot"
    /\ rstate = "unstarted"
    /\ upc = "idle"
    /\ PROXY_POOL = <<>>
    /\ fetch_exc = "unset"
    /\ new_proxies = <<>>
    /\ working_proxies = <<>>
    /\ tested = <<>>
    /\ probes = "unset"
    /\ hpc = "idle"
    /\ attempt = 0
    /\ proxy = "unset"
    /\ log = <<>>
    /\ wire = <<>>
    /\ accepted_in_refresh = FALSE

\* nothing written to the caller yet
Blank == [status |-> 0, headers |-> <<>>, body |-> ""]
NoRelay ==
    /\ response = Blank
    /\ relay_pc = "idle"
    /\ header_no = 0
    /\ emitted = Blank

\* a checker outside run_status_check
checker_locals == <<c_running, c_i, c_result, c_reg, c_slice>>
NoCheck ==
    /\ runs = 0
    /\ cpc = [t \in Checkers |-> "idle"]
    /\ c_running = [t \in Checkers |-> FALSE]
    /\ c_i = [t \in Checkers |-> 0]
    /\ c_result = [t \in Checkers |-> FALSE]
    /\ c_reg = [t \in Checkers |-> 0]
    /\ c_slice = [t \in Checkers |-> <<>>]
\* simple_status.py is not running
NoMonitor ==
    /\ current_status = NoRequests
    /\ status_history = <<>>
    /\ clock = 0
    /\ NoCheck

NoText ==
    /\ NoRelay
    /\ NoMonitor
    /\ path = <<>>
    /\ url = <<>>
    /\ url_again = <<>>
    /\ content = <<>>
    /\ line_no = 0
    /\ proxies = <<>>

Init == Unstarted /\ NoText

(* ------------------------ app.py: pool refresh ------------------------- *)
\* mutant: the refresh thread is started before the startup update
run_server_timerfirst ==
    /\ variant = "app"
    /\ phase = "boot"
    /\ phase' = "startup"
    /\ upc' = "fetching"
    /\ rstate' = "sleeping"
    /\ UNCHANGED <<text, variant, PROXY_POOL, locals, handler, accepted_in_refresh>>

\* run_server: calls update_proxy_pool() before anything else
run_server ==
    /\ variant = "app"
    /\ phase = "boot"
    /\ phase' = "startup"
    /\ upc' = "fetching"
    /\ UNCHANGED <<text, variant, rstate, PROXY_POOL, locals, handler, accepted_in_refresh>>

\* refresh_loop: time.sleep(PROXY_REFRESH_INTERVAL) returns, update_proxy_pool()
\* is called
refresh_loop ==
    /\ variant = "app"
    /\ rstate = "sleeping"
    /\ rstate' = "refreshing"
    /\ upc' = "fetching"
    /\ UNCHANGED <<text, variant, phase, PROXY_POOL, locals, handler, accepted_in_refresh>>

\* update_proxy_pool: new_proxies = fetch_proxies_from_api()
fetch_proxies_from_api(r) ==
    /\ variant = "app"
    /\ upc = "fetching"
    /\ new_proxies' = fetched(r)
    /\ fetch_exc' = r.exc
    /\ upc' = "fetched"
    /\ UNCHANGED <<text, variant, phase, rstate, PROXY_POOL, working_proxies, tested,
                   probes, handler, accepted_in_refresh>>

\* mutant: the candidates that pass are put into the live pool at once
validate_candidates_publish(pat) ==
    /\ variant = "app"
    /\ upc = "fetched"
    /\ new_proxies # <<>>
    /\ LET r == get_working_proxies(new_proxies, MAX_TO_TEST, pat)
       IN /\ working_proxies' = r.working
          /\ tested' = r.tested
          /\ PROXY_POOL' = r.working
    /\ probes' = pat
    /\ upc' = "validated"
    /\ UNCHANGED <<text, variant, phase, rstate, fetch_exc, new_proxies,
                   handler, accepted_in_refresh>>

\* update_proxy_pool: working_proxies = get_working_proxies(new_proxies, 100)
validate_candidates(pat) ==
    /\ variant = "app"
    /\ upc = "fetched"
    /\ new_proxies # <<>>
    /\ LET r == get_working_proxies(new_proxies, MAX_TO_TEST, pat)
       IN /\ working_proxies' = r.working
          /\ tested' = r.tested
    /\ probes' = pat
    /\ upc' = "validated"
    /\ UNCHANGED <<text, variant, phase, rstate, PROXY_POOL, fetch_exc, new_proxies,
                   handler, accepted_in_refresh>>

\* update_proxy_pool lines 114-126: the pool is rebound to the validated
\* list or to the untested prefix, or kept when the fetch gave nothing
update_proxy_pool ==
    /\ variant = "app"
    /\ \/ upc = "validated"
       \/ upc = "fetched" /\ new_proxies = <<>>
    /\ PROXY_POOL' = UpdatedPool(PROXY_POOL, new_proxies, working_proxies)
    /\ upc' = "returned"
    /\ accepted_in_refresh' = FALSE
    /\ UNCHANGED <<text, variant, phase, rstate, locals, handler>>

\* mutant: run_server gives up when the startup update loaded no proxy
start_proxy_refresh_timer_strict ==
    /\ variant = "app"
    /\ phase = "startup"
    /\ upc = "returned"
    /\ PROXY_POOL # <<>>
    /\ upc' = "idle"
    /\ rstate' = "sleeping"
    /\ phase' = "serving"
    /\ fetch_exc' = "unset"
    /\ new_proxies' = <<>>
    /\ working_proxies' = <<>>
    /\ tested' = <<>>
    /\ probes' = "unset"
    /\ UNCHANGED <<text, variant, PROXY_POOL, handler, accepted_in_refresh>>

\* run_server after the startup update: start_proxy_refresh_timer(), whose
\* thread begins with time.sleep, then the listener is opened
start_proxy_refresh_timer ==
    /\ variant = "app"
    /\ phase = "startup"
    /\ upc = "returned"
    /\ upc' = "idle"
    /\ rstate' = "sleeping"
    /\ phase' = "serving"
    /\ fetch_exc' = "unset"
    /\ new_proxies' = <<>>
    /\ working_proxies' = <<>>
    /\ tested' = <<>>
    /\ probes' = "unset"
    /\ UNCHANGED <<text, variant, PROXY_POOL, handler, accepted_in_refresh>>

\* mutant: a refresh that fetched nothing is retried at once
refresh_loop_sleep_retryfast ==
    /\ variant = "app"
    /\ rstate = "refreshing"
    /\ upc = "returned"
    /\ IF new_proxies = <<>>
       THEN /\ upc' = "fetching"
            /\ rstate' = "refreshing"
       ELSE /\ upc' = "idle"
            /\ rstate' = "sleeping"
    /\ fetch_exc' = "unset"
    /\ new_proxies' = <<>>
    /\ working_proxies' = <<>>
    /\ tested' = <<>>
    /\ probes' = "unset"
    /\ UNCHANGED <<text, variant, phase, PROXY_POOL, handler, accepted_in_refresh>>

\* mutant: a refresh that fetched nothing ends the refresh thread
refresh_loop_sleep_stop ==
    /\ variant = "app"
    /\ rstate = "refreshing"
    /\ upc = "returned"
    /\ new_proxies # <<>>
    /\ upc' = "idle"
    /\ rstate' = "sleeping"
    /\ fetch_exc' = "unset"
    /\ new_proxies' = <<>>
    /\ working_proxies' = <<>>
    /\ tested' = <<>>
    /\ probes' = "unset"
    /\ UNCHANGED <<text, variant, phase, PROXY_POOL, handler, accepted_in_refresh>>

\* refresh_loop: update_proxy_pool() has returned, the loop sleeps again
refresh_loop_sleep ==
    /\ variant = "app"
    /\ rstate = "refreshing"
    /\ upc = "returned"
    /\ upc' = "idle"
    /\ rstate' = "sleeping"
    /\ fetch_exc' = "unset"
    /\ new_proxies' = <<>>
    /\ working_proxies' = <<>>
    /\ tested' = <<>>
    /\ probes' = "unset"
    /\ UNCHANGED <<text, variant, phase, PROXY_POOL, handler, accepted_in_refresh>>

(* ---------------------- app.py: request handling ----------------------- *)
\* how the attempt in flight is routed
Via == IF hpc = "direct" THEN "direct" ELSE "proxy"

\* mutant: the listener is opened before the startup update has returned
do_GET_early(url_ok) ==
    /\ variant = "app"
    /\ phase \in {"startup", "serving"}
    /\ hpc \in {"idle", "done"}
    /\ attempt' = 0
    /\ proxy' = "unset"
    /\ log' = <<>>
    /\ IF url_ok
       THEN /\ hpc' = "delay"
            /\ wire' = <<>>
       ELSE /\ hpc' = "done"
            /\ wire' = <<ErrorPage(400)>>
    /\ accepted_in_refresh' =
         (rstate = "refreshing" /\ upc \in {"fetched", "validated"})
    /\ UNCHANGED <<text, variant, refresher>>

\* do_GET up to time.sleep(REQUEST_DELAY): validate_url returns the URL, or
\* None when urlparse raised (then 400 is sent and the handler returns).
\* socketserver.TCPServer handles one connection at a time: the next one is
\* accepted only when the handler of the previous one has returned.
\* mutant: forward_request is entered without the delay
do_GET_nodelay(url_ok) ==
    /\ variant = "app"
    /\ phase = "serving"
    /\ hpc \in {"idle", "done"}
    /\ attempt' = 0
    /\ proxy' = "unset"
    /\ log' = <<>>
    /\ IF url_ok
       THEN /\ hpc' = "loop"
            /\ wire' = <<>>
       ELSE /\ hpc' = "done"
            /\ wire' = <<ErrorPage(400)>>
    /\ accepted_in_refresh' =
         (rstate = "refreshing" /\ upc \in {"fetched", "validated"})
    /\ UNCHANGED <<text, variant, refresher>>

do_GET(url_ok) ==
    /\ variant = "app"
    /\ phase = "serving"
    /\ hpc \in {"idle", "done"}
    /\ attempt' = 0
    /\ proxy' = "unset"
    /\ log' = <<>>
    /\ IF url_ok
       THEN /\ hpc' = "delay"
            /\ wire' = <<>>
       ELSE /\ hpc' = "done"
            /\ wire' = <<ErrorPage(400)>>
    /\ accepted_in_refresh' =
         (rstate = "refreshing" /\ upc \in {"fetched", "validated"})
    /\ UNCHANGED <<text, variant, refresher>>

\* do_GET: the delay has elapsed, forward_request is entered
request_delay ==
    /\ variant = "app"
    /\ hpc = "delay"
    /\ hpc' = "loop"
    /\ UNCHANGED <<text, variant, accepted_in_refresh, refresher, attempt, proxy, log, wire>>

\* forward_request line 171: if not PROXY_POOL -> direct request
loop_top ==
    /\ variant = "app"
    /\ hpc = "loop"
    /\ hpc' = IF PROXY_POOL = <<>> THEN "direct" ELSE "pick"
    /\ UNCHANGED <<text, variant, accepted_in_refresh, refresher, attempt, proxy, log, wire>>

\* mutant: the pool is read under a lock that the refresh holds from its
\* fetch to its replacement
get_random_proxy_locked ==
    /\ variant = "app"
    /\ hpc = "pick"
    /\ upc \notin {"fetched", "validated"}
    /\ IF PROXY_POOL = <<>>
       THEN /\ proxy' = "None"
            /\ hpc' = "direct"
       ELSE /\ proxy' = proxy
            /\ hpc' = "choice"
    /\ UNCHANGED <<text, variant, accepted_in_refresh, refresher, attempt, log, wire>>

\* get_random_proxy line 146: if not PROXY_POOL: return None; then
\* forward_request line 185: if not proxy -> direct request
get_random_proxy ==
    /\ variant = "app"
    /\ hpc = "pick"
    /\ IF PROXY_POOL = <<>>
       THEN /\ proxy' = "None"
            /\ hpc' = "direct"
       ELSE /\ proxy' = proxy
            /\ hpc' = "choice"
    /\ UNCHANGED <<text, variant, accepted_in_refresh, refresher, attempt, log, wire>>

\* mutant: the endpoint of the previous attempt is left out of the choice
choose_proxy_excluding ==
    /\ variant = "app"
    /\ hpc = "choice"
    /\ PROXY_POOL # <<>>
    /\ LET others == random_choice(PROXY_POOL) \ {proxy}
       IN \E p \in (IF others # {} THEN others ELSE random_choice(PROXY_POOL)) :
             proxy' = p
    /\ hpc' = "open"
    /\ UNCHANGED <<text, variant, accepted_in_refresh, refresher, attempt, log, wire>>

\* get_random_proxy line 148: return random.choice(PROXY_POOL); the request
\* through the chosen proxy is then built and sent (lines 198-205)
choose_proxy ==
    /\ variant = "app"
    /\ hpc = "choice"
    /\ PROXY_POOL # <<>>
    /\ \E p \in random_choice(PROXY_POOL) : proxy' = p
    /\ hpc' = "open"
    /\ UNCHANGED <<text, variant, accepted_in_refresh, refresher, attempt, log, wire>>

\* mutant: the return after a relayed response is missing
forward_attempt_noreturn(o) ==
    /\ log' = Append(log, Record(Via, o))
    /\ wire' =
         LET w == IF o.kind = "open_failed" THEN wire ELSE Append(wire, Relayed(o))
         IN IF o.kind # "ok" /\ attempt = max_retries - 1
            THEN Append(w, ErrorPage(terminal_status(o)))
            ELSE w
    /\ hpc' = "backoff"
    /\ proxy' = proxy

\* forward_request: what one attempt leaves on the wire, in the log and in
\* the control state, given the outcome o of the outbound request
forward_attempt(o) ==
    /\ log' = Append(log, Record(Via, o))
    /\ IF o.kind = "ok"
       THEN /\ wire' = Append(wire, Relayed(o))
            /\ hpc' = "done"
            /\ proxy' = "unset"
       ELSE /\ wire' =
                 LET w == IF o.kind = "relay_failed"
                          THEN Append(wire, Relayed(o)) ELSE wire
                 IN IF attempt = max_retries - 1
                    THEN Append(w, ErrorPage(terminal_status(o)))
                    ELSE w
            /\ hpc' = "backoff"
            /\ proxy' = proxy

\* forward_request lines 174-182 / 188-196 / 205-237: one outbound attempt
\* and its handling
attempt_request(o) ==
    /\ variant = "app"
    /\ hpc \in {"open", "direct"}
    /\ forward_attempt(o)
    /\ UNCHANGED <<text, variant, accepted_in_refresh, refresher, attempt>>

\* mutant: "while True" in place of "for attempt in range(max_retries)"
retry_backoff_unbounded ==
    /\ variant = "app"
    /\ hpc = "backoff"
    /\ attempt' = attempt
    /\ hpc' = "loop"
    /\ proxy' = proxy
    /\ UNCHANGED <<text, variant, accepted_in_refresh, refresher, log, wire>>

\* forward_request line 240: time.sleep(1), then the next iteration of
\* for attempt in range(max_retries), or the end of the loop
retry_backoff ==
    /\ variant = "app"
    /\ hpc = "backoff"
    /\ IF attempt + 1 < max_retries
       THEN /\ attempt' = attempt + 1
            /\ hpc' = "loop"
            /\ proxy' = proxy
       ELSE /\ attempt' = attempt
            /\ hpc' = "done"
            /\ proxy' = "unset"
    /\ UNCHANGED <<text, variant, accepted_in_refresh, refresher, log, wire>>

(* --------------------------- app_quick.py ------------------------------ *)
\* run_quick_server: calls update_proxy_pool() once, then serves; no
\* refresh thread is started
quick_run_server ==
    /\ variant = "quick"
    /\ phase = "boot"
    /\ phase' = "startup"
    /\ upc' = "fetching"
    /\ UNCHANGED <<text, variant, rstate, PROXY_POOL, locals, handler, accepted_in_refresh>>

\* app_quick.py update_proxy_pool: new_proxies = fetch_proxies_from_api()
quick_fetch_proxies_from_api(r) ==
    /\ variant = "quick"
    /\ upc = "fetching"
    /\ new_proxies' = fetched(r)
    /\ fetch_exc' = r.exc
    /\ upc' = "fetched"
    /\ UNCHANGED <<text, variant, phase, rstate, PROXY_POOL, working_proxies, tested,
                   probes, handler, accepted_in_refresh>>

\* mutant: the quick script validates like app.py before it replaces
quick_update_proxy_pool_validating ==
    /\ variant = "quick"
    /\ upc = "fetched"
    /\ \E pat \in ProbePatterns :
          LET r == get_working_proxies(new_proxies, MAX_TO_TEST, pat)
          IN /\ PROXY_POOL' = UpdatedPool(PROXY_POOL, new_proxies, r.working)
             /\ working_proxies' = r.working
             /\ tested' = r.tested
             /\ probes' = pat
    /\ upc' = "returned"
    /\ UNCHANGED <<text, variant, phase, rstate, fetch_exc, new_proxies, handler,
                   accepted_in_refresh>>

\* app_quick.py update_proxy_pool lines 75-79
quick_update_proxy_pool ==
    /\ variant = "quick"
    /\ upc = "fetched"
    /\ PROXY_POOL' = UnvalidatedPool(PROXY_POOL, new_proxies)
    /\ upc' = "returned"
    /\ UNCHANGED <<text, variant, phase, rstate, locals, handler, accepted_in_refresh>>

\* run_quick_server after the update: the listener is opened
quick_serve ==
    /\ variant = "quick"
    /\ phase = "startup"
    /\ upc = "returned"
    /\ upc' = "idle"
    /\ phase' = "serving"
    /\ fetch_exc' = "unset"
    /\ new_proxies' = <<>>
    /\ UNCHANGED <<text, variant, rstate, PROXY_POOL, working_proxies, tested, probes,
                   handler, accepted_in_refresh>>

\* app_quick.py do_GET up to the delay
quick_do_GET(url_ok) ==
    /\ variant = "quick"
    /\ phase = "serving"
    /\ hpc \in {"idle", "done"}
    /\ attempt' = 0
    /\ proxy' = "unset"
    /\ log' = <<>>
    /\ IF url_ok
       THEN /\ hpc' = "delay"
            /\ wire' = <<>>
       ELSE /\ hpc' = "done"
            /\ wire' = <<ErrorPage(400)>>
    /\ UNCHANGED <<text, variant, accepted_in_refresh, refresher>>

\* app_quick.py do_GET after the delay: forward_request picks its route,
\* proxy = self.get_random_proxy()
quick_get_random_proxy ==
    /\ variant = "quick"
    /\ hpc = "delay"
    /\ IF PROXY_POOL = <<>>
       THEN /\ proxy' = "None"
            /\ hpc' = "direct"
       ELSE /\ \E p \in random_choice(PROXY_POOL) : proxy' = p
            /\ hpc' = "open"
    /\ UNCHANGED <<text, variant, accepted_in_refresh, refresher, attempt, log, wire>>

\* mutant: an upstream error status is passed on as app.py does
quick_forward_request_upstreamcode(o) ==
    /\ variant = "quick"
    /\ hpc \in {"open", "direct"}
    /\ log' = Append(log, Record(Via, o))
    /\ wire' = IF o.kind = "ok"
               THEN Append(wire, Relayed(o))
               ELSE Append(IF o.kind = "relay_failed"
                           THEN Append(wire, Relayed(o)) ELSE wire,
                           ErrorPage(terminal_status(o)))
    /\ hpc' = "done"
    /\ proxy' = "unset"
    /\ UNCHANGED <<text, variant, accepted_in_refresh, refresher, attempt>>

\* app_quick.py forward_request: the single attempt; every exception is
\* answered with 500
quick_forward_request(o) ==
    /\ variant = "quick"
    /\ hpc \in {"open", "direct"}
    /\ log' = Append(log, Record(Via, o))
    /\ wire' = IF o.kind = "ok"
               THEN Append(wire, Relayed(o))
               ELSE Append(IF o.kind = "relay_failed"
                           THEN Append(wire, Relayed(o)) ELSE wire,
                           ErrorPage(500))
    /\ hpc' = "done"
    /\ proxy' = "unset"
    /\ UNCHANGED <<text, variant, accepted_in_refresh, refresher, attempt>>

(* ----------------------- working_https_proxy.py ------------------------ *)
\* run_server: calls initialize_proxies() once, then serves
https_run_server ==
    /\ variant = "https"
    /\ phase = "boot"
    /\ phase' = "startup"
    /\ upc' = "fetching"
    /\ UNCHANGED <<text, variant, rstate, PROXY_POOL, locals, handler, accepted_in_refresh>>

\* initialize_proxies: proxies = fetch_proxies()
https_fetch_proxies(r) ==
    /\ variant = "https"
    /\ upc = "fetching"
    /\ new_proxies' = fetch_proxies(r)
    /\ fetch_exc' = r.exc
    /\ upc' = "fetched"
    /\ UNCHANGED <<text, variant, phase, rstate, PROXY_POOL, working_proxies, tested,
                   probes, handler, accepted_in_refresh>>

\* initialize_proxies lines 257-261
initialize_proxies ==
    /\ variant = "https"
    /\ upc = "fetched"
    /\ PROXY_POOL' = UnvalidatedPool(PROXY_POOL, new_proxies)
    /\ upc' = "returned"
    /\ UNCHANGED <<text, variant, phase, rstate, locals, handler, accepted_in_refresh>>

\* mutant: the pool is loaded again once the listener is open
https_serve_reloading ==
    /\ variant = "https"
    /\ phase = "startup"
    /\ upc = "returned"
    /\ upc' = "fetching"
    /\ phase' = "serving"
    /\ fetch_exc' = "unset"
    /\ new_proxies' = <<>>
    /\ UNCHANGED <<text, variant, rstate, PROXY_POOL, working_proxies, tested, probes,
                   handler, accepted_in_refresh>>

\* working_https_proxy.py run_server after initialize_proxies: the listener
\* is opened
https_serve ==
    /\ variant = "https"
    /\ phase = "startup"
    /\ upc = "returned"
    /\ upc' = "idle"
    /\ phase' = "serving"
    /\ fetch_exc' = "unset"
    /\ new_proxies' = <<>>
    /\ UNCHANGED <<text, variant, rstate, PROXY_POOL, working_proxies, tested, probes,
                   handler, accepted_in_refresh>>

\* working_https_proxy.py do_GET up to the delay: the root path is refused
https_do_GET(has_url) ==
    /\ variant = "https"
    /\ phase = "serving"
    /\ hpc \in {"idle", "done"}
    /\ attempt' = 0
    /\ proxy' = "unset"
    /\ log' = <<>>
    /\ IF has_url
       THEN /\ hpc' = "delay"
            /\ wire' = <<>>
       ELSE /\ hpc' = "done"
            /\ wire' = <<ErrorPage(400)>>
    /\ UNCHANGED <<text, variant, accepted_in_refresh, refresher>>

\* mutant: with an empty pool a built-in default endpoint is used
get_proxy_default ==
    /\ variant = "https"
    /\ hpc = "delay"
    /\ IF PROXY_POOL = <<>>
       THEN \E p \in Endpoints : proxy' = p
       ELSE \E p \in random_choice(PROXY_POOL) : proxy' = p
    /\ hpc' = "open"
    /\ UNCHANGED <<text, variant, accepted_in_refresh, refresher, attempt, log, wire>>

\* make_request: proxy = self.get_proxy(); without one the proxy block is
\* skipped
get_proxy ==
    /\ variant = "https"
    /\ hpc = "delay"
    /\ IF PROXY_POOL = <<>>
       THEN /\ proxy' = "None"
            /\ hpc' = "direct"
       ELSE /\ \E p \in random_choice(PROXY_POOL) : proxy' = p
            /\ hpc' = "open"
    /\ UNCHANGED <<text, variant, accepted_in_refresh, refresher, attempt, log, wire>>

\* mutant: a failed proxy attempt is answered 502 at once
make_request_proxy_nofallback(o) ==
    /\ variant = "https"
    /\ hpc = "open"
    /\ log' = Append(log, Record("proxy", o))
    /\ wire' = IF o.kind = "ok"
               THEN Append(wire, Relayed(o))
               ELSE Append(IF o.kind = "relay_failed"
                           THEN Append(wire, Relayed(o)) ELSE wire,
                           ErrorPage(502))
    /\ hpc' = "done"
    /\ proxy' = "unset"
    /\ UNCHANGED <<text, variant, accepted_in_refresh, refresher, attempt>>

\* make_request lines 131-169: the attempt through the proxy; any exception
\* leaves success False
make_request_proxy(o) ==
    /\ variant = "https"
    /\ hpc = "open"
    /\ log' = Append(log, Record("proxy", o))
    /\ wire' = IF o.kind = "open_failed" THEN wire ELSE Append(wire, Relayed(o))
    /\ hpc' = IF o.kind = "ok" THEN "done" ELSE "direct"
    /\ proxy' = IF o.kind = "ok" THEN "unset" ELSE proxy
    /\ UNCHANGED <<text, variant, accepted_in_refresh, refresher, attempt>>

\* mutant: a failed direct attempt ends the request without an error page
make_request_direct_silent(o) ==
    /\ variant = "https"
    /\ hpc = "direct"
    /\ log' = Append(log, Record("direct", o))
    /\ wire' = IF o.kind = "open_failed" THEN wire ELSE Append(wire, Relayed(o))
    /\ hpc' = "done"
    /\ proxy' = "unset"
    /\ UNCHANGED <<text, variant, accepted_in_refresh, refresher, attempt>>

\* make_request lines 172-208: the direct attempt, and 502 when it fails too
make_request_direct(o) ==
    /\ variant = "https"
    /\ hpc = "direct"
    /\ log' = Append(log, Record("direct", o))
    /\ wire' = IF o.kind = "ok"
               THEN Append(wire, Relayed(o))
               ELSE Append(IF o.kind = "relay_failed"
                           THEN Append(wire, Relayed(o)) ELSE wire,
                           ErrorPage(502))
    /\ hpc' = "done"
    /\ proxy' = "unset"
    /\ UNCHANGED <<text, variant, accepted_in_refresh, refresher, attempt>>

Next ==
    \/ run_server
    \/ refresh_loop
    \/ \E r \in FetchOutcomes : fetch_proxies_from_api(r)
    \/ \E pat \in ProbePatterns : validate_candidates(pat)
    \/ update_proxy_pool
    \/ start_proxy_refresh_timer
    \/ refresh_loop_sleep
    \/ \E b \in BOOLEAN : do_GET(b)
    \/ request_delay
    \/ loop_top
    \/ get_random_proxy
    \/ choose_proxy
    \/ \E o \in Outcomes : attempt_request(o)
    \/ retry_backoff
    \/ quick_run_server
    \/ \E r \in FetchOutcomes : quick_fetch_proxies_from_api(r)
    \/ quick_update_proxy_pool
    \/ quick_serve
    \/ \E b \in BOOLEAN : quick_do_GET(b)
    \/ quick_get_random_proxy
    \/ \E o \in Outcomes : quick_forward_request(o)
    \/ https_run_server
    \/ \E r \in FetchOutcomes : https_fetch_proxies(r)
    \/ initialize_proxies
    \/ https_serve
    \/ \E b \in BOOLEAN : https_do_GET(b)
    \/ get_proxy
    \/ \E o \in Outcomes : make_request_proxy(o)
    \/ \E o \in Outcomes : make_request_direct(o)

Spec == Init /\ [][Next]_vars

\* The steps of run_server before the listener and of the refresh thread.
\* At most one of them is enabled in a state (the thread is created when
\* the startup update has returned).
RefresherStep ==
    \/ run_server
    \/ refresh_loop
    \/ \E r \in FetchOutcomes : fetch_proxies_from_api(r)
    \/ \E pat \in ProbePatterns : validate_candidates(pat)
    \/ update_proxy_pool
    \/ start_proxy_refresh_timer
    \/ refresh_loop_sleep

\* The scheduler runs the main thread and the refresh thread of app.py,
\* time.sleep returns, and every outbound call of the refresh ends (by its
\* answer or by its timeout of 30 s / 10 s).
\* The server thread of app.py next to the refresher; its attempts end in
\* a relayed 200 or in a connection error (what a request is answered has
\* no part in the refresher's progress).
LiveOutcomes ==
    {o \in Outcomes : o.status \in {200, 0} /\ o.exc \in {"none", "URLError"}}
LiveNext ==
    \/ RefresherStep
    \/ \E b \in BOOLEAN : do_GET(b)
    \/ request_delay
    \/ loop_top
    \/ get_random_proxy
    \/ choose_proxy
    \/ \E o \in LiveOutcomes : attempt_request(o)
    \/ retry_backoff
\* app.py is the script started
InitApp == Init /\ variant = "app"
LiveSpec == InitApp /\ [][LiveNext]_vars /\ WF_vars(RefresherStep)

(* ----------------------- normalization of targets ---------------------- *)
program == <<variant, refresher, handler, accepted_in_refresh>>
listing == <<content, line_no, proxies>>
target == <<path, url, url_again>>
relaying == <<response, relay_pc, header_no, emitted>>
monitor == <<current_status, status_history, clock, runs, cpc, checker_locals>>

\* working_https_proxy.py do_GET line 219: url = self.normalize_url(self.path)
https_normalize ==
    /\ variant = "https"
    /\ url = <<>>
    /\ url' = normalize_url(path)
    /\ UNCHANGED <<program, monitor, listing, relaying, path, url_again>>

\* app.py do_GET lines 246-247 (and app_quick.py lines 136-137):
\* url = self.path[1:]; url = self.validate_url(url)
do_GET_validate ==
    /\ variant \in {"app", "quick"}
    /\ url = <<>>
    /\ url' = validate_url(Tail(path))
    /\ UNCHANGED <<program, monitor, listing, relaying, path, url_again>>

\* the result handed to normalize_url once more
https_normalize_again ==
    /\ variant = "https"
    /\ url # <<>>
    /\ url_again = <<>>
    /\ url_again' = normalize_url(url)
    /\ UNCHANGED <<program, monitor, listing, relaying, path, url>>

\* the result handed to validate_url once more
validate_again ==
    /\ variant \in {"app", "quick"}
    /\ url # <<>>
    /\ url_again = <<>>
    /\ url_again' = validate_url(url)
    /\ UNCHANGED <<program, monitor, listing, relaying, path, url>>

UrlInit ==
    /\ Unstarted
    /\ NoRelay
    /\ NoMonitor
    /\ path \in RequestPaths
    /\ url = <<>>
    /\ url_again = <<>>
    /\ content = <<>>
    /\ line_no = 0
    /\ proxies = <<>>

UrlNext ==
    \/ https_normalize
    \/ do_GET_validate
    \/ https_normalize_again
    \/ validate_again

UrlSpec == UrlInit /\ [][UrlNext]_vars

(* -------------------------- parsing a listing -------------------------- *)
\* app.py lines 53-58: one turn of "for line in content.split('\n')"
parse_line ==
    /\ variant = "app"
    /\ line_no < Len(content)
    /\ line_no' = line_no + 1
    /\ LET line == strip(content[line_no + 1])
       IN proxies' = IF accepts(line)
                     THEN Append(proxies, endpoint_of(line))
                     ELSE proxies
    /\ UNCHANGED <<program, monitor, target, relaying, content>>

ParseInit ==
    /\ Unstarted
    /\ NoRelay
    /\ NoMonitor
    /\ variant = "app"
    /\ content \in Contents
    /\ line_no = 0
    /\ proxies = <<>>
    /\ path = <<>>
    /\ url = <<>>
    /\ url_again = <<>>

ParseNext == parse_line

ParseSpec == ParseInit /\ [][ParseNext]_vars

(* ------------------------- relaying a response ------------------------- *)
\* app.py line 206 / working_https_proxy.py line 153:
\* self.send_response(response.status)
send_response ==
    /\ relay_pc = "status"
    /\ emitted' = [emitted EXCEPT !.status = response.status]
    /\ relay_pc' = "headers"
    /\ UNCHANGED <<program, monitor, target, listing, response, header_no>>

\* working_https_proxy.py lines 157-159: one turn of the header loop
https_send_header ==
    /\ variant = "https"
    /\ relay_pc = "headers"
    /\ header_no < Len(response.headers)
    /\ header_no' = header_no + 1
    /\ LET h == response.headers[header_no + 1]
       IN emitted' = IF skips(h.key)
                     THEN emitted
                     ELSE [emitted EXCEPT !.headers = Append(@, h)]
    /\ UNCHANGED <<program, monitor, target, listing, response, relay_pc>>

\* app.py lines 207-208: one turn of the header loop
send_header ==
    /\ variant = "app"
    /\ relay_pc = "headers"
    /\ header_no < Len(response.headers)
    /\ header_no' = header_no + 1
    /\ emitted' = [emitted EXCEPT !.headers = Append(@, response.headers[header_no + 1])]
    /\ UNCHANGED <<program, monitor, target, listing, response, relay_pc>>

\* self.end_headers(); self.wfile.write(response.read())
write_body ==
    /\ relay_pc = "headers"
    /\ header_no = Len(response.headers)
    /\ emitted' = [emitted EXCEPT !.body = response.body]
    /\ relay_pc' = "done"
    /\ UNCHANGED <<program, monitor, target, listing, response, header_no>>

RelayInit ==
    /\ Unstarted
    /\ NoMonitor
    /\ variant \in {"app", "https"}
    /\ path = <<>>
    /\ url = <<>>
    /\ url_again = <<>>
    /\ content = <<>>
    /\ line_no = 0
    /\ proxies = <<>>
    /\ response \in Responses
    /\ relay_pc = "status"
    /\ header_no = 0
    /\ emitted = Blank

RelayNext ==
    \/ send_response
    \/ https_send_header
    \/ send_header
    \/ write_body

RelaySpec == RelayInit /\ [][RelayNext]_vars

(* ------------------- simple_status.py: status checks ------------------- *)
\* what a step of the monitor leaves alone outside the monitor
elsewhere == <<program, target, listing, relaying>>

\* background_monitor after its sleep, or the thread do_GET starts for
\* /api/check, enters run_status_check; check_proxy_status (line 133)
\* finds the relay port open or not
check_proxy_status(t, reachable) ==
    /\ cpc[t] = "idle"
    /\ runs < MaxRuns
    /\ runs' = runs + 1
    /\ c_running' = [c_running EXCEPT ![t] = reachable]
    /\ c_i' = [c_i EXCEPT ![t] = IF reachable THEN 1 ELSE 0]
    /\ cpc' = [cpc EXCEPT ![t] = IF reachable THEN "test" ELSE "update"]
    /\ UNCHANGED <<elsewhere, current_status, status_history, clock,
                   c_result, c_reg, c_slice>>

\* lines 138-142: result = self.test_endpoint(endpoint), and the read of
\* self.current_status["total_requests"] for "+= 1"
test_endpoint(t, ok) ==
    /\ cpc[t] = "test"
    /\ c_result' = [c_result EXCEPT ![t] = ok]
    /\ c_reg' = [c_reg EXCEPT ![t] = current_status.total_requests]
    /\ cpc' = [cpc EXCEPT ![t] = "store_total"]
    /\ UNCHANGED <<elsewhere, current_status, status_history, clock, runs,
                   c_running, c_i, c_slice>>

\* line 142: the write of self.current_status["total_requests"]
store_total(t) ==
    /\ cpc[t] = "store_total"
    /\ current_status' = [current_status EXCEPT !.total_requests = c_reg[t] + 1]
    /\ cpc' = [cpc EXCEPT ![t] = "load_outcome"]
    /\ UNCHANGED <<elsewhere, status_history, clock, runs, checker_locals>>

\* lines 143-146: the read of successful_requests or failed_requests
load_outcome(t) ==
    /\ cpc[t] = "load_outcome"
    /\ c_reg' = [c_reg EXCEPT ![t] = IF c_result[t]
                                     THEN current_status.successful_requests
                                     ELSE current_status.failed_requests]
    /\ cpc' = [cpc EXCEPT ![t] = "store_outcome"]
    /\ UNCHANGED <<elsewhere, current_status, status_history, clock, runs,
                   c_running, c_i, c_result, c_slice>>

\* lines 143-146: the write of that counter, then the next endpoint
store_outcome(t) ==
    /\ cpc[t] = "store_outcome"
    /\ current_status' =
         IF c_result[t]
         THEN [current_status EXCEPT !.successful_requests = c_reg[t] + 1]
         ELSE [current_status EXCEPT !.failed_requests = c_reg[t] + 1]
    /\ IF c_i[t] < NUM_TESTS
       THEN /\ c_i' = [c_i EXCEPT ![t] = c_i[t] + 1]
            /\ cpc' = [cpc EXCEPT ![t] = "test"]
       ELSE /\ c_i' = [c_i EXCEPT ![t] = 0]
            /\ cpc' = [cpc EXCEPT ![t] = "update"]
    /\ c_reg' = [c_reg EXCEPT ![t] = 0]
    /\ c_result' = [c_result EXCEPT ![t] = FALSE]
    /\ UNCHANGED <<elsewhere, status_history, clock, runs, c_running, c_slice>>

\* lines 155-161: self.current_status.update({...})
update_status(t) ==
    /\ cpc[t] = "update"
    /\ current_status' = [current_status EXCEPT !.proxy_running = c_running[t]]
    /\ cpc' = [cpc EXCEPT ![t] = "append"]
    /\ UNCHANGED <<elsewhere, status_history, clock, runs, checker_locals>>

\* lines 164-169: self.status_history.append({...})
append_history(t) ==
    /\ cpc[t] = "append"
    /\ clock' = clock + 1
    /\ status_history' = Append(status_history, Entry(clock + 1, c_running[t]))
    /\ cpc' = [cpc EXCEPT ![t] = "trim"]
    /\ UNCHANGED <<elsewhere, current_status, runs, checker_locals>>

\* lines 171-172: if len(self.status_history) > 20, the value of
\* self.status_history[-20:]; otherwise run_status_check returns
trim_read(t) ==
    /\ cpc[t] = "trim"
    /\ IF Len(status_history) > HISTORY_KEEP
       THEN /\ c_slice' = [c_slice EXCEPT ![t] = LastN(status_history, HISTORY_KEEP)]
            /\ cpc' = [cpc EXCEPT ![t] = "trim_store"]
            /\ c_running' = c_running
       ELSE /\ c_slice' = c_slice
            /\ cpc' = [cpc EXCEPT ![t] = "done"]
            /\ c_running' = [c_running EXCEPT ![t] = FALSE]
    /\ UNCHANGED <<elsewhere, current_status, status_history, clock, runs,
                   c_i, c_result, c_reg>>

\* line 172: the assignment to self.status_history; run_status_check returns
trim_store(t) ==
    /\ cpc[t] = "trim_store"
    /\ status_history' = c_slice[t]
    /\ c_slice' = [c_slice EXCEPT ![t] = <<>>]
    /\ c_running' = [c_running EXCEPT ![t] = FALSE]
    /\ cpc' = [cpc EXCEPT ![t] = "done"]
    /\ UNCHANGED <<elsewhere, current_status, clock, runs, c_i, c_result, c_reg>>

\* background_monitor goes back to its sleep; the thread of an /api/check
\* ends and the next /api/check starts a new one
check_returned(t) ==
    /\ cpc[t] = "done"
    /\ cpc' = [cpc EXCEPT ![t] = "idle"]
    /\ UNCHANGED <<elsewhere, current_status, status_history, clock, runs,
                   checker_locals>>

\* main has run its first check and started the server and the background
\* thread; the checks so far ran one at a time and found the port closed
MonitorInit ==
    /\ Unstarted
    /\ variant = "app"
    /\ NoRelay
    /\ path = <<>>
    /\ url = <<>>
    /\ url_again = <<>>
    /\ content = <<>>
    /\ line_no = 0
    /\ proxies = <<>>
    /\ NoCheck
    /\ current_status = NoRequests
    /\ \E n \in {1} \cup ((HISTORY_KEEP - 1)..MaxPrior) :
          /\ clock = n
          /\ status_history = HistoryAfter(n)

MonitorNext ==
    \E t \in Checkers :
        \/ \E reachable \in BOOLEAN : check_proxy_status(t, reachable)
        \/ \E ok \in BOOLEAN : test_endpoint(t, ok)
        \/ store_total(t)
        \/ load_outcome(t)
        \/ store_outcome(t)
        \/ update_status(t)
        \/ append_history(t)
        \/ trim_read(t)
        \/ trim_store(t)
        \/ check_returned(t)

MonitorSpec == MonitorInit /\ [][MonitorNext]_vars

(* ======================================================================= *)
(*                               properties                                *)
(* ======================================================================= *)
Last(xs) == xs[Len(xs)]
\* an attempt that failed before any response was received
TransportFailure(r) == r.result \in {"URLError", "TimeoutError"} /\ r.status = 0
\* the last thing written to the caller is an error page of send_error
ErrorSurfaced == hpc = "done" /\ wire # <<>> /\ Last(wire).body = "error"

C2_DirectBeforeError ==
    (variant \in {"app", "https"} /\ log # <<>> /\ log[1].via = "proxy"
        /\ ErrorSurfaced) =>
        \E i \in 1..Len(log) : log[i].via = "direct"

(* C2 amended: in the HTTPS variant a failed proxy attempt is always        *)
(* followed by a direct attempt before 502 is surfaced; in app.py no direct *)
(* attempt follows a proxy-routed attempt (app.py goes direct only in an    *)
(* attempt that finds the pool empty).                                      *)
C2_DirectFallbackHttpsOnly ==
    /\ variant = "https" =>
        ((log # <<>> /\ log[1].via = "proxy" /\ log[1].result # "none") =>
            \/ hpc = "direct" /\ Len(log) = 1
            \/ Len(log) = 2 /\ log[2].via = "direct" /\ hpc = "done")
    /\ variant = "app" =>
        \A i, j \in 1..Len(log) :
            (i < j /\ log[i].via = "proxy") => log[j].via = "proxy"

C2_Witness ==
    /\ variant = "https"
    /\ hpc = "done"
    /\ Len(log) = 2
    /\ log[1].via = "proxy"
    /\ log[2].via = "direct"
    /\ wire = <<[status |-> 502, body |-> "error", complete |-> TRUE]>>

C4_AtMostThreeAttempts ==
    variant = "app" =>
        /\ Len(log) + (IF hpc \in {"open", "direct"} THEN 1 ELSE 0) <= 3
        /\ \A i \in 1..Len(log) :
              log[i].result = "none" => (i = Len(log) /\ hpc = "done")

C4_Witness ==
    /\ variant = "app"
    /\ hpc = "done"
    /\ Len(log) = 2
    /\ log[1].result = "URLError"
    /\ log[2].result = "none"

C6_EmptyFetchKeepsPool ==
    [][(upc = "fetched" /\ new_proxies = <<>> /\ upc' = "returned")
          => PROXY_POOL' = PROXY_POOL]_vars

C6_Witness ==
    /\ variant = "app"
    /\ rstate = "refreshing"
    /\ upc = "returned"
    /\ new_proxies = <<>>
    /\ Len(PROXY_POOL) >= 2

(* C7: in app.py, after a refresh that fetched n >= 1 candidates of which   *)
(* none validated, the pool is the first min(50, n) candidates in fetch     *)
(* order.                                                                   *)
C7_UntestedFallback ==
    (variant = "app" /\ upc = "returned" /\ new_proxies # <<>>
        /\ working_proxies = <<>>) =>
        /\ PROXY_POOL # <<>>
        /\ Len(PROXY_POOL) = (IF Len(new_proxies) < 50 THEN Len(new_proxies) ELSE 50)
        /\ \A i \in 1..Len(PROXY_POOL) : PROXY_POOL[i] = new_proxies[i]

C7_Witness ==
    /\ variant = "app"
    /\ upc = "returned"
    /\ Len(new_proxies) > 50
    /\ working_proxies = <<>>
    /\ Len(PROXY_POOL) = 50

(* C8: in app.py a refresh probes exactly the first min(100, n) candidates, *)
(* each once and in fetch order; working_proxies is the sequence of probed  *)
(* candidates answered 200, in fetch order, and when it is not empty it     *)
(* becomes the pool.                                                        *)
C8_PoolIsValidated ==
    (variant = "app" /\ upc \in {"validated", "returned"} /\ new_proxies # <<>>) =>
        LET m == IF Len(new_proxies) < 100 THEN Len(new_proxies) ELSE 100
            first_m == [i \in 1..m |-> i]
            passing == SelectSeq(first_m,
                          LAMBDA i : Probe(probes, i) = [exc |-> FALSE, status |-> 200])
        IN /\ tested = first_m
           /\ working_proxies = [k \in 1..Len(passing) |-> new_proxies[passing[k]]]
           /\ (upc = "returned" /\ working_proxies # <<>>) =>
                 PROXY_POOL = working_proxies

C8_Witness ==
    /\ variant = "app"
    /\ upc = "returned"
    /\ Len(new_proxies) > 100
    /\ probes = "odd"
    /\ Len(PROXY_POOL) = 50
    /\ PROXY_POOL = working_proxies

(* C9: the pool changes only by one step that rebinds it to a complete,     *)
(* separately built list (the validated list, the untested prefix or the    *)
(* fetched list); that step is no step of a request handler, so a read of   *)
(* the pool sees the whole old or the whole new list.                       *)
C9_AtomicReplace ==
    [][PROXY_POOL' # PROXY_POOL =>
          /\ upc # "returned" /\ upc' = "returned"
          /\ handler' = handler
          /\ PROXY_POOL' =
                IF variant = "app"
                THEN IF working_proxies # <<>>
                     THEN working_proxies
                     ELSE SubSeq(new_proxies, 1,
                                 IF Len(new_proxies) < 50 THEN Len(new_proxies) ELSE 50)
                ELSE new_proxies]_vars

C9_Witness ==
    /\ variant = "app"
    /\ rstate = "refreshing"
    /\ upc = "returned"
    /\ hpc \in {"pick", "choice"}
    /\ proxy \in Endpoints
    /\ working_proxies # <<>>
    /\ PROXY_POOL = working_proxies
    /\ \A i \in 1..Len(PROXY_POOL) : PROXY_POOL[i] # proxy

(* C10: every endpoint a pick returns is an element of the pool as it is    *)
(* when the pick returns, under every interleaving with the refresher.      *)
C10_PickFromCurrentPool ==
    [][(hpc # "open" /\ hpc' = "open") =>
          \E i \in 1..Len(PROXY_POOL') : PROXY_POOL'[i] = proxy']_vars

C10_Witness ==
    /\ variant = "app"
    /\ hpc = "open"
    /\ log # <<>>
    /\ log[1].via = "direct"
    /\ \E i \in 1..Len(PROXY_POOL) : PROXY_POOL[i] = proxy

(* C11: the pool has a single writer. Its value changes only in the         *)
(* replacement step of a refresh (the startup refresh or the timer          *)
(* refresh), no step of a request handler changes it, and at most one       *)
(* refresh is in progress: while update_proxy_pool runs, exactly one of     *)
(* the startup refresh and the timer refresh is under way.                  *)
StartupRefreshing == phase = "startup"
TimerRefreshing == rstate = "refreshing"
C11_SingleWriter ==
    /\ [](~(StartupRefreshing /\ TimerRefreshing))
    /\ [](upc # "idle" => (StartupRefreshing \/ TimerRefreshing))
    /\ [][PROXY_POOL' # PROXY_POOL =>
             /\ StartupRefreshing \/ TimerRefreshing
             /\ upc \in {"fetched", "validated"}
             /\ upc' = "returned"]_vars
    /\ [][handler' # handler => PROXY_POOL' = PROXY_POOL]_vars

C11_Witness ==
    /\ variant = "app"
    /\ phase = "serving"
    /\ TimerRefreshing
    /\ upc = "returned"
    /\ hpc = "backoff"
    /\ new_proxies # <<>>
    /\ working_proxies = <<>>
    /\ PROXY_POOL = Take(new_proxies, FALLBACK_KEEP)

(* C12: no inbound request is accepted or handled before the startup        *)
(* refresh has returned, with or without endpoints, and the refresh thread  *)
(* is started only after it has returned.                                   *)
C12_StartupBeforeServing ==
    /\ [](phase # "serving" =>
             /\ hpc = "idle"
             /\ log = <<>>
             /\ wire = <<>>
             /\ rstate = "unstarted")
    /\ [][(phase # "serving" /\ phase' = "serving") =>
             (phase = "startup" /\ upc = "returned")]_vars
    /\ [][(rstate = "unstarted" /\ rstate' # "unstarted") =>
             (phase = "startup" /\ upc = "returned")]_vars

C12_Witness ==
    /\ variant = "app"
    /\ phase = "serving"
    /\ rstate = "sleeping"
    /\ upc = "idle"
    /\ PROXY_POOL = <<>>
    /\ hpc = "delay"

\* a request is between its acceptance and the return of its handler
InFlight == hpc \in {"delay", "loop", "pick", "choice", "open", "direct", "backoff"}
\* the server accepts the next inbound request and enters its handler
AcceptRequest ==
    \E b \in BOOLEAN : do_GET(b) \/ quick_do_GET(b) \/ https_do_GET(b)

(* C13 as stated: inbound requests are served in parallel, each by its own  *)
(* worker: while one request is in its delay, its forwarding attempts or    *)
(* its backoff, another inbound request can be accepted and handled.        *)
C13_ParallelRequests ==
    (phase = "serving" /\ InFlight) => ENABLED AcceptRequest

\* a timer refresh is between its fetch and its pool replacement
RefreshInProgress ==
    variant = "app" /\ rstate = "refreshing" /\ upc \in {"fetched", "validated"}
\* the next step of the server thread of app.py, whatever its position
HandlerStep ==
    \/ \E b \in BOOLEAN : do_GET(b)
    \/ request_delay
    \/ loop_top
    \/ get_random_proxy
    \/ choose_proxy
    \/ \E o \in Outcomes : attempt_request(o)
    \/ retry_backoff

(* C14: forwarding never waits for a refresh. In every state where a timer  *)
(* refresh of app.py is between its fetch and its pool replacement, the     *)
(* server thread can take its next step: accept an inbound request when it  *)
(* is not inside a handler, go on with the request in flight otherwise; a   *)
(* pick made then returns an endpoint of the pool as it was before the      *)
(* refresh, and no handler step touches the refresh.                        *)
C14_NeverBlocksOnRefresh ==
    /\ [](RefreshInProgress => ENABLED HandlerStep)
    /\ []((RefreshInProgress /\ ~InFlight) => ENABLED AcceptRequest)
    /\ [](accepted_in_refresh => (RefreshInProgress /\ hpc # "idle"))
    /\ [][(RefreshInProgress /\ handler' # handler) =>
             /\ refresher' = refresher
             /\ (hpc' = "open" /\ hpc # "open") => proxy' \in Range(PROXY_POOL)]_vars

C14_Witness ==
    /\ accepted_in_refresh
    /\ upc = "validated"
    /\ working_proxies # <<>>
    /\ working_proxies # PROXY_POOL
    /\ hpc = "done"
    /\ Len(log) = 2
    /\ log[1].via = "proxy"
    /\ log[2].via = "proxy"
    /\ log[2].result = "none"
    /\ wire = <<[status |-> 200, body |-> "1.2.3.4", complete |-> TRUE]>>

(* C15: in app.py, under fair scheduling of the refresher, every timer      *)
(* refresh returns to the sleeping (idle) state whatever it fetched or      *)
(* validated, and a timer refresh starts again and again: the refresher is  *)
(* infinitely often sleeping and infinitely often at the start of a         *)
(* refresh; the only step out of a returned refresh is the one to sleep.    *)
C15_RefreshForever ==
    /\ []<>(variant # "app" \/ (rstate = "sleeping" /\ upc = "idle"))
    /\ []<>(variant # "app" \/ (rstate = "refreshing" /\ upc = "fetching"))
    /\ (TimerRefreshing /\ upc = "fetched" /\ fetch_exc # "none")
          ~> (rstate = "sleeping")
    /\ (TimerRefreshing /\ upc = "validated" /\ working_proxies = <<>>)
          ~> (rstate = "sleeping")
    /\ (TimerRefreshing /\ upc = "validated" /\ working_proxies # <<>>)
          ~> (rstate = "sleeping")

C15_Witness ==
    /\ variant = "app"
    /\ rstate = "refreshing"
    /\ upc = "fetching"
    /\ PROXY_POOL # <<>>
    /\ hpc = "open"
    /\ proxy \in Endpoints
    /\ proxy \notin Range(PROXY_POOL)

(* C16: in app.py a refresh starts only at startup or when the timer wait   *)
(* of the refresh thread ends, and the end of every refresh attempt, the    *)
(* startup one included and whatever its outcome, is followed by the timer  *)
(* wait: the refresher goes from a returned refresh to sleeping and from    *)
(* sleeping to the start of the next refresh, never from one refresh        *)
(* straight into the next.                                                  *)
C16_TimerPacedRefresh ==
    /\ [][(variant = "app" /\ upc # "fetching" /\ upc' = "fetching") =>
             /\ upc = "idle"
             /\ \/ phase = "boot" /\ phase' = "startup" /\ rstate' = "unstarted"
                \/ phase = "serving" /\ rstate = "sleeping" /\ rstate' = "refreshing"]_vars
    /\ [][(variant = "app" /\ upc = "returned" /\ upc' # "returned") =>
             (upc' = "idle" /\ rstate' = "sleeping")]_vars
    /\ [][(rstate = "sleeping" /\ rstate' # "sleeping") =>
             (rstate' = "refreshing" /\ upc' = "fetching")]_vars
    /\ [](rstate = "sleeping" <=> (variant = "app" /\ phase = "serving" /\ upc = "idle"))

C16_Witness ==
    /\ variant = "app"
    /\ rstate = "refreshing"
    /\ upc = "returned"
    /\ fetch_exc = "URLError"
    /\ PROXY_POOL # <<>>
    /\ hpc = "open"
    /\ proxy \in Endpoints
    /\ proxy \notin Range(PROXY_POOL)

(* C17: while the pool is empty (it then never was populated) no request    *)
(* is at a pick or at a proxy-routed attempt, no endpoint is held, every    *)
(* attempt record of the current request is a direct one, and a direct      *)
(* attempt that succeeded ended the request with its status and body        *)
(* relayed to the caller.                                                   *)
C17_EmptyPoolGoesDirect ==
    PROXY_POOL = <<>> =>
        /\ hpc \notin {"pick", "choice", "open"}
        /\ proxy \in {"unset", "None"}
        /\ \A i \in 1..Len(log) : log[i].via = "direct"
        /\ (log # <<>> /\ Last(log).result = "none") =>
              /\ hpc = "done"
              /\ wire # <<>>
              /\ Last(wire) = [status |-> Last(log).status,
                               body |-> Last(log).body, complete |-> TRUE]

C17_Witness ==
    /\ variant = "app"
    /\ PROXY_POOL = <<>>
    /\ rstate = "sleeping"
    /\ hpc = "done"
    /\ Len(log) = 2
    /\ log[1].via = "direct"
    /\ log[1].result = "TimeoutError"
    /\ log[2].via = "direct"
    /\ log[2].result = "none"
    /\ wire = <<[status |-> 204, body |-> "", complete |-> TRUE]>>

\* the status the claim gives to a failure of the last attempt, by kind
StatusByKind(r) ==
    CASE r.result \in {"URLError", "TimeoutError"} -> 504
      [] r.result = "HTTPError"                    -> r.status
      [] OTHER                                     -> 500

(* C18 as stated: in app.py forward_request, failed attempts 1 and 2 put    *)
(* nothing on the caller's socket, and when the third attempt fails too     *)
(* the one thing the caller receives is the error page whose status is      *)
(* given by the kind of that last failure: 504 for a timeout or connection  *)
(* error, the upstream code for an HTTP error, 500 for anything else.       *)
C18_TerminalStatusByKind ==
    (variant = "app" /\ log # <<>> /\ \A i \in 1..Len(log) : log[i].result # "none") =>
        /\ Len(log) < 3 => wire = <<>>
        /\ Len(log) = 3 => wire = <<ErrorPage(StatusByKind(log[3]))>>

\* the next step of the main thread before the listener is open
StartupStep ==
    \/ \E r \in FetchOutcomes : \/ fetch_proxies_from_api(r)
                                 \/ quick_fetch_proxies_from_api(r)
                                 \/ https_fetch_proxies(r)
    \/ \E pat \in ProbePatterns : validate_candidates(pat)
    \/ update_proxy_pool \/ quick_update_proxy_pool \/ initialize_proxies
    \/ start_proxy_refresh_timer \/ quick_serve \/ https_serve

(* C19: the startup refresh never stops the process. Whatever the fetch     *)
(* and the probes ended with, the main thread can take its next step, and   *)
(* when the startup update has returned the relay opens its listener with   *)
(* the pool as the update left it, the empty pool included; the relay then  *)
(* accepts requests with an empty pool.                                     *)
C19_DegradedStart ==
    /\ [](phase = "startup" => ENABLED StartupStep)
    /\ [][(phase = "startup" /\ upc = "returned" /\ upc' # "returned") =>
             (phase' = "serving" /\ PROXY_POOL' = PROXY_POOL)]_vars
    /\ []((phase = "serving" /\ PROXY_POOL = <<>> /\ ~InFlight) =>
             ENABLED AcceptRequest)

C19_Witness ==
    /\ variant = "https"
    /\ phase = "serving"
    /\ PROXY_POOL = <<>>
    /\ hpc = "done"
    /\ log = <<[via |-> "direct", result |-> "none", status |-> 200,
                body |-> "1.2.3.4"]>>
    /\ wire = <<[status |-> 200, body |-> "1.2.3.4", complete |-> TRUE]>>

\* the caller of the fetch goes on: the rest of update_proxy_pool /
\* initialize_proxies
AfterFetch == update_proxy_pool \/ quick_update_proxy_pool \/ initialize_proxies

(* C20: the fetch never fails its caller. When the request to the listing   *)
(* service ended with an exception (connection error, timeout, or an error  *)
(* status, raised as HTTPError), the fetch has returned the empty list,     *)
(* whatever had been read, the refresh goes on, and its only next step      *)
(* returns with the pool unchanged.                                         *)
C20_FetchNeverFails ==
    /\ []((upc \in {"fetched", "validated", "returned"} /\ fetch_exc \in FetchFailures)
             => new_proxies = <<>>)
    /\ []((upc = "fetched" /\ fetch_exc \in FetchFailures) => ENABLED AfterFetch)
    /\ [][(upc = "fetched" /\ fetch_exc \in FetchFailures /\ upc' # "fetched") =>
             (upc' = "returned" /\ PROXY_POOL' = PROXY_POOL)]_vars

C20_Witness ==
    /\ variant = "app"
    /\ rstate = "refreshing"
    /\ upc = "returned"
    /\ fetch_exc = "HTTPError"
    /\ new_proxies = <<>>
    /\ Len(PROXY_POOL) = FALLBACK_KEEP

(* C21: in app.py a probed candidate counts as working exactly when its     *)
(* probe was answered with status 200: the validated list has as many       *)
(* entries as probed positions answered 200, a probe that raised or was     *)
(* answered with another status adds nothing, and whatever the probes       *)
(* ended with the refresh goes on to its replacement step.                  *)
C21_ValidateOnly200 ==
    (variant = "app" /\ upc \in {"validated", "returned"} /\ new_proxies # <<>>) =>
        /\ Len(working_proxies) =
              Cardinality({i \in 1..Len(tested) :
                              /\ ~Probe(probes, tested[i]).exc
                              /\ Probe(probes, tested[i]).status = 200})
        /\ (\A i \in 1..Len(tested) :
               Probe(probes, tested[i]).exc \/ Probe(probes, tested[i]).status # 200)
              => working_proxies = <<>>
        /\ upc = "validated" => ENABLED update_proxy_pool

C21_Witness ==
    /\ variant = "app"
    /\ upc = "validated"
    /\ probes = "none"
    /\ Len(new_proxies) = 2
    /\ Probe(probes, 1).exc
    /\ Probe(probes, 2) = [exc |-> FALSE, status |-> 204]
    /\ working_proxies = <<>>

(* C22: fetching and validating leave the pool alone. Every step of app.py  *)
(* that enters or stays in the fetch and validation phase of a refresh      *)
(* keeps PROXY_POOL, and so does every step taken once the refresh has      *)
(* returned or while no refresh runs: the pool can only change in the one   *)
(* step that ends the refresh, so at most once per refresh.                 *)
C22_ValidationIsPureProbe ==
    [][variant = "app" =>
          /\ upc' \in {"fetching", "fetched", "validated"} => PROXY_POOL' = PROXY_POOL
          /\ upc \in {"idle", "returned"} => PROXY_POOL' = PROXY_POOL]_vars

C22_Witness ==
    /\ variant = "app"
    /\ TimerRefreshing
    /\ upc = "validated"
    /\ probes = "all"
    /\ PROXY_POOL # <<>>
    /\ Len(working_proxies) > Len(PROXY_POOL)
    /\ hpc = "idle"

\* the host of a target: its first part after the scheme, if it has one
HostOf(u) == IF u[1] \in Schemes THEN u[2] ELSE u[1]
\* hosts of the HTTPS-heuristic list
HeuristicHosts == {h \in Hosts : Lower(h) = "github.com"}
\* the target sent by the caller: the request path without its "/"
Sent == Tail(path)

(* C23: a target that starts with http:// or https:// is normalized to      *)
(* itself; a target without scheme gets https:// in front when its host is  *)
(* on the heuristic list (working_https_proxy.py) and http:// otherwise     *)
(* (always http:// in app.py and app_quick.py, which have no list); and     *)
(* normalizing the result again gives the same result.                      *)
C23_Normalization ==
    url # <<>> =>
        /\ url = IF Sent[1] \in Schemes
                 THEN Sent
                 ELSE IF variant = "https" /\ HostOf(Sent) \in HeuristicHosts
                      THEN <<"https://">> \o Sent
                      ELSE <<"http://">> \o Sent
        /\ url_again # <<>> => url_again = url

(* C24: the endpoints parsed from the lines handled so far are those of     *)
(* the lines made of a host, a colon and a port (white space around them    *)
(* aside), one endpoint per such line, in the order of the listing; every   *)
(* other line adds nothing.                                                 *)
HostAndPort(line) == strip(line) = <<HostPart, ":", PortPart>>
C24_AcceptsHostPortOnly ==
    LET handled == SubSeq(content, 1, line_no)
        good == SelectSeq(handled, HostAndPort)
    IN proxies = [k \in 1..Len(good) |-> endpoint_of(strip(good[k]))]

(* C25: when the update of app_quick.py returns after a fetch that gave a   *)
(* non-empty list, the pool is that list, every entry at its position of    *)
(* the listing, however long it is, and no candidate was probed.            *)
C25_QuickPoolIsFetchedList ==
    (variant = "quick" /\ upc = "returned" /\ new_proxies # <<>>) =>
        /\ Len(PROXY_POOL) = Len(new_proxies)
        /\ \A i \in 1..Len(new_proxies) : PROXY_POOL[i] = new_proxies[i]
        /\ tested = <<>>
        /\ probes = "unset"
        /\ working_proxies = <<>>

C25_Witness ==
    /\ variant = "quick"
    /\ upc = "returned"
    /\ fetch_exc = "none"
    /\ Len(new_proxies) = MaxListing
    /\ Len(PROXY_POOL) = MaxListing
    /\ PROXY_POOL[MaxListing] = new_proxies[MaxListing]

\* the attempts of the current request made by one route
AttemptsVia(route) == {i \in 1..Len(log) : log[i].via = route}
\* the error page of the given code is among what the caller was sent
Received(code) == \E i \in 1..Len(wire) : wire[i] = ErrorPage(code)

(* C26: a request of working_https_proxy.py makes at most one attempt       *)
(* through a proxy and at most one direct attempt, the proxy attempt first. *)
(* When make_request has returned, a direct attempt was made exactly when   *)
(* the pool was empty or the proxy attempt failed, and the caller was sent  *)
(* 502 exactly when none of the attempts succeeded.                         *)
C26_HttpsOneProxyOneDirect ==
    variant = "https" =>
        /\ Cardinality(AttemptsVia("proxy")) <= 1
        /\ Cardinality(AttemptsVia("direct")) <= 1
        /\ AttemptsVia("proxy") \subseteq {1}
        /\ (hpc = "done" /\ log # <<>>) =>
              /\ AttemptsVia("direct") # {} <=>
                    (PROXY_POOL = <<>> \/ log[1].result # "none")
              /\ Received(502) <=> \A i \in 1..Len(log) : log[i].result # "none"

C26_Witness ==
    /\ variant = "https"
    /\ hpc = "done"
    /\ PROXY_POOL # <<>>
    /\ Len(log) = 2
    /\ log[1].via = "proxy"
    /\ log[1].result = "HTTPError"
    /\ log[2].via = "direct"
    /\ log[2].result = "none"
    /\ wire = <<[status |-> 200, body |-> "1.2.3.4", complete |-> TRUE]>>

(* C27: whenever an attempt of app.py is about to choose its proxy, every   *)
(* endpoint of the pool as it is at that moment can be the one chosen,      *)
(* whichever endpoint the previous attempt used and however it ended, and   *)
(* no endpoint outside the pool of that moment can.                         *)
C27_IndependentRepick ==
    (variant = "app" /\ hpc = "choice") =>
        /\ PROXY_POOL # <<>>
        /\ \A p \in Endpoints :
              ENABLED (choose_proxy /\ proxy' = p) <=> p \in Range(PROXY_POOL)

\* The second attempt goes through the endpoint whose attempt has just
\* failed: the pool has not been replaced since the request was accepted
\* and holds that endpoint only.
C27_Witness ==
    /\ variant = "app"
    /\ accepted_in_refresh
    /\ PROXY_POOL = <<EndpointName[1]>>
    /\ hpc = "open"
    /\ attempt = 1
    /\ proxy = EndpointName[1]
    /\ Len(log) = 1
    /\ log[1].via = "proxy"
    /\ log[1].result = "URLError"

\* forward_request of app.py is running
InForward == variant = "app" /\ hpc \in {"loop", "pick", "choice", "open", "direct", "backoff"}
\* the steps of forward_request
ForwardStep ==
    \/ loop_top
    \/ get_random_proxy
    \/ choose_proxy
    \/ \E o \in Outcomes : attempt_request(o)
    \/ retry_backoff
\* how far forward_request is from its end: the iterations left, and within
\* an iteration the steps left
StepsLeft ==
    CASE hpc = "loop" -> 5
      [] hpc = "pick" -> 4
      [] hpc = "choice" -> 3
      [] hpc \in {"open", "direct"} -> 2
      [] hpc = "backoff" -> 1
      [] OTHER -> 0
ForwardRank == IF InForward THEN (max_retries - attempt) * 6 + StepsLeft ELSE 0

(* C28: forward_request of app.py always ends. While it runs it has a next  *)
(* step to take (an outbound attempt ends with one of its outcomes), every  *)
(* step it takes brings it nearer to its end by a measure that cannot fall  *)
(* below zero, and when it has ended it has made at most 3 attempts and the *)
(* last thing written to the caller is the complete answer of a successful  *)
(* attempt or an error page.                                                *)
C28_ForwardTerminates ==
    /\ [](InForward => (ENABLED ForwardStep /\ attempt < max_retries))
    /\ [][(InForward /\ handler' # handler) =>
             (ForwardRank' < ForwardRank /\ ForwardRank' >= 0)]_vars
    /\ []((variant = "app" /\ hpc = "done" /\ log # <<>>) =>
             /\ Len(log) <= max_retries
             /\ wire # <<>>
             /\ Last(wire).complete
             /\ \/ Last(log).result = "none" /\ Last(wire).status = Last(log).status
                \/ Last(log).result # "none" /\ Last(wire).body = "error"
                      /\ Len(log) = max_retries)

C28_Witness ==
    /\ variant = "app"
    /\ hpc = "done"
    /\ Len(log) = max_retries
    /\ log[1].result = "TimeoutError"
    /\ log[2].result = "HTTPError"
    /\ log[3].result = "Exception"
    /\ log[3].status = 0
    /\ wire = <<[status |-> 500, body |-> "error", complete |-> TRUE]>>

(* C29: the caller of a request is sent at most one status line: once a     *)
(* response (relayed or error page) has been started on the caller's        *)
(* socket, nothing further is started on it for the same request, also      *)
(* when the attempt that started it failed while relaying.                  *)
C29_SingleResponse ==
    variant \in {"app", "https"} => Len(wire) <= 1

(* C30: in app.py the backoff wait is only entered after a failed attempt   *)
(* that is not the last one; after the last failed attempt the handler      *)
(* ends with the error page written and no wait.                            *)
C30_BackoffOnlyBetweenAttempts ==
    (variant = "app" /\ hpc = "backoff") =>
        /\ attempt < max_retries - 1
        /\ Last(log).result # "none"

\* no request is being handled
Waiting == hpc \in {"idle", "done"}

(* C31: in app.py and working_https_proxy.py the per-request delay is       *)
(* entered only by accepting a request, a request that is not answered 400  *)
(* at once enters it before anything else, and it is left towards the       *)
(* first attempt with nothing attempted or written yet; a retry never       *)
(* passes through it again.                                                 *)
C31_DelayOnceBeforeFirstAttempt ==
    /\ [](hpc = "delay" => (log = <<>> /\ wire = <<>> /\ attempt = 0))
    /\ [][(variant \in {"app", "https"}) =>
             /\ (hpc' = "delay" /\ hpc # "delay") => Waiting
             /\ (Waiting /\ ~Waiting') => hpc' = "delay"
             /\ (hpc = "delay" /\ hpc' # "delay") =>
                    (hpc' \in {"loop", "open", "direct"} /\ log' = <<>>)
             /\ (Len(log') > Len(log)) => (hpc \in {"open", "direct"})]_vars

C31_Witness ==
    /\ variant = "app"
    /\ hpc = "loop"
    /\ attempt = 2
    /\ Len(log) = 2
    /\ wire = <<>>
    /\ PROXY_POOL # <<>>

(* C32: no step makes a non-empty pool empty: a refresh leaves the pool as  *)
(* it is or rebinds it to a non-empty list. So in forward_request of app.py *)
(* the pool is still non-empty when get_random_proxy reads it after line    *)
(* 171 found it non-empty, and get_random_proxy never returns None there.   *)
C32_PoolNeverEmptiesAgain ==
    /\ [][PROXY_POOL # <<>> => PROXY_POOL' # <<>>]_vars
    /\ []((variant = "app" /\ hpc \in {"pick", "choice"}) => PROXY_POOL # <<>>)
    /\ [](variant = "app" => proxy # "None")

C32_Witness ==
    /\ variant = "app"
    /\ TimerRefreshing
    /\ upc = "returned"
    /\ fetch_exc = "URLError"
    /\ new_proxies = <<>>
    /\ PROXY_POOL # <<>>
    /\ hpc = "pick"

(* C33: a request of app_quick.py with a usable URL makes exactly one       *)
(* outbound attempt, through a proxy exactly when the pool is non-empty.    *)
(* When the attempt fails, by a transport error or by an upstream error     *)
(* status alike, the request ends there with the error page 500 as the      *)
(* last thing written; when it succeeds no error page is written.           *)
C33_QuickSingleAttempt ==
    variant = "quick" =>
        /\ Len(log) <= 1
        /\ hpc = "done" =>
              \/ Len(log) = 1
              \/ log = <<>> /\ wire = <<ErrorPage(400)>>
        /\ log # <<>> =>
              /\ hpc = "done"
              /\ log[1].via = "proxy" <=> PROXY_POOL # <<>>
              /\ IF log[1].result = "none"
                 THEN wire = <<[status |-> log[1].status, body |-> log[1].body,
                                complete |-> TRUE]>>
                 ELSE Last(wire) = ErrorPage(500)

C33_Witness ==
    /\ variant = "quick"
    /\ hpc = "done"
    /\ PROXY_POOL # <<>>
    /\ Len(log) = 1
    /\ log[1].via = "proxy"
    /\ log[1].result = "HTTPError"
    /\ log[1].status = 404
    /\ wire = <<[status |-> 500, body |-> "error", complete |-> TRUE]>>

(* C34: in app_quick.py and working_https_proxy.py the pool is written at   *)
(* most once: only the startup update writes it, from empty to the fetched  *)
(* list, while no request has been accepted yet. Once the listener is open  *)
(* no refresh thread exists, no update is running and no step changes the   *)
(* pool.                                                                    *)
C34_PoolFixedAfterStartup ==
    /\ []((variant \in {"quick", "https"} /\ phase = "serving") =>
             (rstate = "unstarted" /\ upc = "idle"))
    /\ [][(variant \in {"quick", "https"} /\ PROXY_POOL' # PROXY_POOL) =>
             /\ phase = "startup" /\ phase' = "startup"
             /\ PROXY_POOL = <<>>
             /\ hpc = "idle" /\ wire = <<>>]_vars

C34_Witness ==
    /\ variant = "quick"
    /\ phase = "serving"
    /\ Len(PROXY_POOL) = MaxShort
    /\ hpc = "open"
    /\ proxy = PROXY_POOL[MaxShort]
    /\ log = <<>>

(* C35: the pool never holds more than 100 endpoints in app.py, and when a  *)
(* refresh of app.py has returned it holds at most 100 validated endpoints  *)
(* or, nothing having validated, at most 50 untested ones; in               *)
(* working_https_proxy.py the pool never holds more than 10.                *)
C35_PoolSizeBounded ==
    /\ variant = "app" =>
          /\ Len(PROXY_POOL) <= 100
          /\ (upc = "returned" /\ new_proxies # <<>> /\ working_proxies = <<>>) =>
                Len(PROXY_POOL) <= 50
    /\ variant = "https" => Len(PROXY_POOL) <= 10

C35_Witness ==
    /\ variant = "https"
    /\ upc = "returned"
    /\ fetch_exc = "none"
    /\ Len(new_proxies) = 10
    /\ Len(PROXY_POOL) = 10

\* the header names that are connection, transfer-encoding or
\* content-encoding in some spelling
TransportKeys == {"Connection", "Transfer-Encoding", "content-encoding",
                  "CONTENT-ENCODING"}
NotTransport(h) == h.key \notin TransportKeys

(* C36: of the upstream headers handled so far, working_https_proxy.py has  *)
(* emitted those that are not connection, transfer-encoding or              *)
(* content-encoding in any spelling, each once and in upstream order, and   *)
(* app.py has emitted all of them; the status sent is the upstream status   *)
(* and, when the relay is done, the body sent is the upstream body.         *)
C36_HeaderFiltering ==
    relay_pc # "idle" =>
        LET seen == SubSeq(response.headers, 1, header_no)
        IN /\ emitted.headers = IF variant = "https"
                                THEN SelectSeq(seen, NotTransport)
                                ELSE seen
           /\ relay_pc \in {"headers", "done"} => emitted.status = response.status
           /\ relay_pc = "done" =>
                 /\ header_no = Len(response.headers)
                 /\ emitted.body = response.body

C36_Witness ==
    /\ variant = "https"
    /\ relay_pc = "done"
    /\ Len(response.headers) = 2
    /\ response.headers[1].key = "CONTENT-ENCODING"
    /\ response.headers[2].key = "Set-Cookie"
    /\ emitted.headers = <<response.headers[2]>>
    /\ emitted.status = 200
    /\ emitted.body = "1.2.3.4"

\* a status check has completed and its thread has not gone on yet
CheckCompleted == \E t \in Checkers : cpc[t] = "done"
\* the positions of run_status_check inside the loop over the endpoints
Counting(t) == cpc[t] \in {"test", "store_total", "load_outcome", "store_outcome"}

(* C37: whenever a status check of simple_status.py has completed and no   *)
(* check is in the middle of testing and counting an endpoint, also after   *)
(* checks that ran at the same time, total_requests is the sum of           *)
(* successful_requests and failed_requests; and a check is inside the loop  *)
(* that tests endpoints and counts only if it found the relay port open.    *)
C37_CountersConsistent ==
    /\ (CheckCompleted /\ \A t \in Checkers : ~Counting(t)) =>
          current_status.total_requests =
              current_status.successful_requests + current_status.failed_requests
    /\ \A t \in Checkers : Counting(t) => c_running[t]

\* no check is between its append and the end of its trimming
NoneTrimming == \A t \in Checkers : cpc[t] \notin {"trim", "trim_store"}

(* C38: when a status check has completed and no check is in the middle of  *)
(* appending and trimming, the history holds at most 20 entries, and they   *)
(* are the most recent entries appended, oldest first: the entries with     *)
(* the last timestamps taken, one for each.                                 *)
C38_HistoryBounded ==
    (CheckCompleted /\ NoneTrimming) =>
        /\ Len(status_history) <= 20
        /\ \A i \in 1..Len(status_history) :
              status_history[i].timestamp = clock - Len(status_history) + i
        /\ Len(status_history) = Min(clock, 20)

====
